---- MODULE Spec2Model ----
(***************************************************************************)
(* Canvas drawing state with undo/redo history, held by three              *)
(* interchangeable store back ends (zustand, redux toolkit, react context) *)
(* behind one universal store interface with a run-time store selector.    *)
(*                                                                         *)
(* Indices are 0-based as in the source: historyIndex = i designates the   *)
(* (i+1)-th element of the TLA+ sequence history.                          *)
(***************************************************************************)
EXTENDS Integers, Sequences, FiniteSets, TLC

VARIABLES
    currentStore,   \* StoreManager: the selected store type
    store,          \* the CanvasState held by each store type
    args,           \* arguments of a direct call of addToHistory
    ret             \* what that call returned

vars == <<currentStore, store, args, ret>>

----------------------------------------------------------------------------
(* Bounds of the exploration                                               *)

MaxWeight == 3
MaxReplayWeight == 3
MaxPath == 2
MaxCallHistory == 3
MaxCallSize == 3

----------------------------------------------------------------------------
(* Types and constants of the program                                      *)

StoreType == {"zustand", "redux", "context"}

DrawingTool == {"pen", "rectangle", "circle"}

defaultStore == "zustand"

maxHistorySize == 50

initialCanvasState ==
    [ shapes       |-> <<>>,
      currentColor |-> "#000000",
      currentTool  |-> "pen",
      history      |-> << <<>> >>,
      historyIndex |-> 0,
      isDrawing    |-> FALSE,
      currentPath  |-> <<>> ]

----------------------------------------------------------------------------
(* JavaScript array primitives used by the source                          *)

Min(a, b) == IF a < b THEN a ELSE b

Max(a, b) == IF a > b THEN a ELSE b

\* Array.prototype.slice(start, end): a negative bound counts from the end,
\* both bounds are clamped to 0..length.
slice(a, start, end) ==
    LET len  == Len(a)
        from == IF start < 0 THEN Max(len + start, 0) ELSE Min(start, len)
        to   == IF end < 0 THEN Max(len + end, 0) ELSE Min(end, len)
    IN  IF from >= to THEN <<>> ELSE SubSeq(a, from + 1, to)

\* Array.prototype.slice(start): up to the end of the array.
sliceFrom(a, start) == slice(a, start, Len(a))

\* a[i] for an index inside the array.
at(a, i) == a[i + 1]

----------------------------------------------------------------------------
(* store/utils.ts                                                          *)

\* gen stands for what Date.now() and Math.random() give this call.
createShape(points, color, type, gen) ==
    [ id        |-> gen.id,
      points    |-> points,
      color     |-> color,
      type      |-> type,
      timestamp |-> gen.timestamp ]

\* Variant: the cap applies one entry early.
addToHistory_capsEarly(currentHistory, currentIndex, newState, maxSize) ==
    LET truncatedHistory == slice(currentHistory, 0, currentIndex + 1)
        newHistory       == Append(truncatedHistory, newState)
        finalHistory     == IF Len(newHistory) >= maxSize
                            THEN sliceFrom(newHistory, -(maxSize - 1))
                            ELSE newHistory
    IN  [ history |-> finalHistory, historyIndex |-> Len(finalHistory) - 1 ]

\* Variant: the cap is tested on the length of the history passed in.
addToHistory_capByOldLength(currentHistory, currentIndex, newState, maxSize) ==
    LET truncatedHistory == slice(currentHistory, 0, currentIndex + 1)
        newHistory       == Append(truncatedHistory, newState)
        finalHistory     == IF Len(currentHistory) + 1 > maxSize
                            THEN sliceFrom(newHistory, 1)
                            ELSE newHistory
    IN  [ history |-> finalHistory, historyIndex |-> Len(finalHistory) - 1 ]

\* Variant: the cursor is set to the length of the result.
addToHistory_indexPastEnd(currentHistory, currentIndex, newState, maxSize) ==
    LET truncatedHistory == slice(currentHistory, 0, currentIndex + 1)
        newHistory       == Append(truncatedHistory, newState)
        finalHistory     == IF Len(newHistory) > maxSize
                            THEN sliceFrom(newHistory, -maxSize)
                            ELSE newHistory
    IN  [ history |-> finalHistory, historyIndex |-> Len(finalHistory) ]

\* Variant: the size limit is not applied.
addToHistory_uncapped(currentHistory, currentIndex, newState, maxSize) ==
    LET truncatedHistory == slice(currentHistory, 0, currentIndex + 1)
        newHistory       == Append(truncatedHistory, newState)
    IN  [ history |-> newHistory, historyIndex |-> Len(newHistory) - 1 ]

\* Variant: the entries after the cursor are kept.
addToHistory_untruncated(currentHistory, currentIndex, newState, maxSize) ==
    LET newHistory   == Append(currentHistory, newState)
        finalHistory == IF Len(newHistory) > maxSize
                        THEN sliceFrom(newHistory, -maxSize)
                        ELSE newHistory
    IN  [ history |-> finalHistory, historyIndex |-> Len(finalHistory) - 1 ]

\* Variant: the limit keeps the oldest entries, slice(0, maxSize).
addToHistory_keepsOldest(currentHistory, currentIndex, newState, maxSize) ==
    LET truncatedHistory == slice(currentHistory, 0, currentIndex + 1)
        newHistory       == Append(truncatedHistory, newState)
        finalHistory     == IF Len(newHistory) > maxSize
                            THEN slice(newHistory, 0, maxSize)
                            ELSE newHistory
    IN  [ history |-> finalHistory, historyIndex |-> Len(finalHistory) - 1 ]

addToHistory(currentHistory, currentIndex, newState, maxSize) ==
    LET truncatedHistory == slice(currentHistory, 0, currentIndex + 1)
        newHistory       == Append(truncatedHistory, newState)
        finalHistory     == IF Len(newHistory) > maxSize
                            THEN sliceFrom(newHistory, -maxSize)
                            ELSE newHistory
    IN  [ history |-> finalHistory, historyIndex |-> Len(finalHistory) - 1 ]

\* Variant: the guard lets the first entry through.
canUndo_atZero(historyIndex) == historyIndex >= 0

canUndo(historyIndex) == historyIndex > 0

canRedo(historyIndex, historyLength) == historyIndex < historyLength - 1

----------------------------------------------------------------------------
(* store/zustandStore.ts: useZustandStore.  Every action is one synchronous *)
(* set((state) => ...) on an immer draft; the operators give the state     *)
(* that set() installs.                                                    *)

\* Variant: adding a shape ends the stroke in progress.
zustand_addShape_endsStroke(state, shapeData, gen) ==
    LET newShape == createShape(shapeData.points, shapeData.color, shapeData.type, gen)
        pushed   == [state EXCEPT !.shapes = Append(@, newShape),
                                  !.isDrawing = FALSE,
                                  !.currentPath = <<>>]
        h        == addToHistory(pushed.history, pushed.historyIndex, pushed.shapes,
                                 maxHistorySize)
    IN  [pushed EXCEPT !.history = h.history, !.historyIndex = h.historyIndex]

zustand_addShape(state, shapeData, gen) ==
    LET newShape == createShape(shapeData.points, shapeData.color, shapeData.type, gen)
        pushed   == [state EXCEPT !.shapes = Append(@, newShape)]
        h        == addToHistory(pushed.history, pushed.historyIndex, pushed.shapes,
                                 maxHistorySize)
    IN  [pushed EXCEPT !.history = h.history, !.historyIndex = h.historyIndex]

zustand_changeColor(state, color) == [state EXCEPT !.currentColor = color]

\* Variant: changing the tool ends the stroke in progress.
zustand_changeTool_endsStroke(state, tool) ==
    [state EXCEPT !.currentTool = tool, !.isDrawing = FALSE, !.currentPath = <<>>]

zustand_changeTool(state, tool) == [state EXCEPT !.currentTool = tool]

zustand_startDrawing(state, startPoint) ==
    [state EXCEPT !.isDrawing = TRUE, !.currentPath = <<startPoint>>]

\* Variant: the point is put at the front of the path.
zustand_continueDrawing_prepends(state, point) ==
    IF state.isDrawing
    THEN [state EXCEPT !.currentPath = <<point>> \o @]
    ELSE state

zustand_continueDrawing(state, point) ==
    IF state.isDrawing
    THEN [state EXCEPT !.currentPath = Append(@, point)]
    ELSE state

\* finishDrawing reads state = get() and then writes through set((draft) => ...);
\* draft is the store's state at the time of the write.
\* Variant: the shape is built from the draft after its path was reset.
zustand_finishDrawing_pathAfterReset(state, draft, gen) ==
    IF state.isDrawing /\ Len(state.currentPath) > 0
    THEN LET reset    == [draft EXCEPT !.isDrawing = FALSE, !.currentPath = <<>>]
             newShape == createShape(reset.currentPath, reset.currentColor,
                                     reset.currentTool, gen)
             pushed   == [reset EXCEPT !.shapes = Append(@, newShape)]
             h        == addToHistory(pushed.history, pushed.historyIndex,
                                      pushed.shapes, maxHistorySize)
         IN  [pushed EXCEPT !.history = h.history, !.historyIndex = h.historyIndex]
    ELSE [draft EXCEPT !.isDrawing = FALSE, !.currentPath = <<>>]

zustand_finishDrawing(state, draft, gen) ==
    IF state.isDrawing /\ Len(state.currentPath) > 0
    THEN LET shapeData == [ points |-> state.currentPath,
                            color  |-> state.currentColor,
                            type   |-> state.currentTool ]
             newShape  == createShape(shapeData.points, shapeData.color,
                                      shapeData.type, gen)
             pushed    == [draft EXCEPT !.shapes = Append(@, newShape),
                                        !.isDrawing = FALSE,
                                        !.currentPath = <<>>]
             h         == addToHistory(pushed.history, pushed.historyIndex,
                                       pushed.shapes, maxHistorySize)
         IN  [pushed EXCEPT !.history = h.history, !.historyIndex = h.historyIndex]
    ELSE [draft EXCEPT !.isDrawing = FALSE, !.currentPath = <<>>]

\* Variant: the stroke in progress is not cancelled.
zustand_undo_keepsStroke(state) ==
    IF canUndo(state.historyIndex)
    THEN LET moved == [state EXCEPT !.historyIndex = @ - 1]
         IN  [moved EXCEPT !.shapes = at(moved.history, moved.historyIndex)]
    ELSE state

zustand_undo(state) ==
    IF canUndo(state.historyIndex)
    THEN LET moved == [state EXCEPT !.historyIndex = @ - 1]
         IN  [moved EXCEPT !.shapes = at(moved.history, moved.historyIndex),
                           !.isDrawing = FALSE,
                           !.currentPath = <<>>]
    ELSE state

\* Variant: redo goes to the last entry of the history.
zustand_redo_jumpsToLast(state) ==
    IF canRedo(state.historyIndex, Len(state.history))
    THEN LET moved == [state EXCEPT !.historyIndex = Len(state.history) - 1]
         IN  [moved EXCEPT !.shapes = at(moved.history, moved.historyIndex),
                           !.isDrawing = FALSE,
                           !.currentPath = <<>>]
    ELSE state

zustand_redo(state) ==
    IF canRedo(state.historyIndex, Len(state.history))
    THEN LET moved == [state EXCEPT !.historyIndex = @ + 1]
         IN  [moved EXCEPT !.shapes = at(moved.history, moved.historyIndex),
                           !.isDrawing = FALSE,
                           !.currentPath = <<>>]
    ELSE state

\* Variant: an already empty canvas is not committed again.
zustand_clear_skipsWhenEmpty(state) ==
    IF state.shapes = <<>>
    THEN [state EXCEPT !.isDrawing = FALSE, !.currentPath = <<>>]
    ELSE LET cleared == [state EXCEPT !.shapes = <<>>]
             h       == addToHistory(cleared.history, cleared.historyIndex,
                                     cleared.shapes, maxHistorySize)
         IN  [cleared EXCEPT !.history = h.history,
                             !.historyIndex = h.historyIndex,
                             !.isDrawing = FALSE,
                             !.currentPath = <<>>]

zustand_clear(state) ==
    LET cleared == [state EXCEPT !.shapes = <<>>]
        h       == addToHistory(cleared.history, cleared.historyIndex, cleared.shapes,
                                maxHistorySize)
    IN  [cleared EXCEPT !.history = h.history,
                        !.historyIndex = h.historyIndex,
                        !.isDrawing = FALSE,
                        !.currentPath = <<>>]

\* Variant: the history and its cursor survive the reset.
zustand_reset_keepsHistory(state) ==
    [ f \in DOMAIN state |->
        IF f \in DOMAIN initialCanvasState \ {"history", "historyIndex"}
        THEN initialCanvasState[f]
        ELSE state[f] ]

\* set(() => ({...initialCanvasState})) merges the seven state fields.
zustand_reset(state) ==
    [ f \in DOMAIN state |->
        IF f \in DOMAIN initialCanvasState THEN initialCanvasState[f] ELSE state[f] ]

----------------------------------------------------------------------------
(* store/reduxStore.ts: canvasSlice.reducers (immer drafts)                *)

\* Variant: the shape takes the current colour and tool of the canvas.
redux_addShape_currentStyle(state, payload, gen) ==
    LET newShape == createShape(payload.points, state.currentColor, state.currentTool,
                                gen)
        pushed   == [state EXCEPT !.shapes = Append(@, newShape)]
        h        == addToHistory(pushed.history, pushed.historyIndex, pushed.shapes,
                                 maxHistorySize)
    IN  [pushed EXCEPT !.history = h.history, !.historyIndex = h.historyIndex]

redux_addShape(state, payload, gen) ==
    LET newShape == createShape(payload.points, payload.color, payload.type, gen)
        pushed   == [state EXCEPT !.shapes = Append(@, newShape)]
        h        == addToHistory(pushed.history, pushed.historyIndex, pushed.shapes,
                                 maxHistorySize)
    IN  [pushed EXCEPT !.history = h.history, !.historyIndex = h.historyIndex]

redux_changeColor(state, payload) == [state EXCEPT !.currentColor = payload]

redux_changeTool(state, payload) == [state EXCEPT !.currentTool = payload]

\* Variant: the stroke starts with an empty path.
redux_startDrawing_emptyPath(state, payload) ==
    [state EXCEPT !.isDrawing = TRUE, !.currentPath = <<>>]

redux_startDrawing(state, payload) ==
    [state EXCEPT !.isDrawing = TRUE, !.currentPath = <<payload>>]

\* Variant: the point is pushed whether or not a stroke is in progress.
redux_continueDrawing_unguarded(state, payload) ==
    [state EXCEPT !.currentPath = Append(@, payload)]

redux_continueDrawing(state, payload) ==
    IF state.isDrawing
    THEN [state EXCEPT !.currentPath = Append(@, payload)]
    ELSE state

redux_finishDrawing(state, gen) ==
    IF state.isDrawing /\ Len(state.currentPath) > 0
    THEN LET newShape == createShape(state.currentPath, state.currentColor,
                                     state.currentTool, gen)
             pushed   == [state EXCEPT !.shapes = Append(@, newShape),
                                       !.isDrawing = FALSE,
                                       !.currentPath = <<>>]
             h        == addToHistory(pushed.history, pushed.historyIndex,
                                      pushed.shapes, maxHistorySize)
         IN  [pushed EXCEPT !.history = h.history, !.historyIndex = h.historyIndex]
    ELSE [state EXCEPT !.isDrawing = FALSE, !.currentPath = <<>>]

\* Variant: undo goes two entries back where it can.
redux_undo_twoSteps(state) ==
    IF canUndo(state.historyIndex)
    THEN LET moved == [state EXCEPT !.historyIndex = Max(@ - 2, 0)]
         IN  [moved EXCEPT !.shapes = at(moved.history, moved.historyIndex),
                           !.isDrawing = FALSE,
                           !.currentPath = <<>>]
    ELSE state

\* Variant: the path of the cancelled stroke is left behind.
redux_undo_keepsPath(state) ==
    IF canUndo(state.historyIndex)
    THEN LET moved == [state EXCEPT !.historyIndex = @ - 1]
         IN  [moved EXCEPT !.shapes = at(moved.history, moved.historyIndex),
                           !.isDrawing = FALSE]
    ELSE state

redux_undo(state) ==
    IF canUndo(state.historyIndex)
    THEN LET moved == [state EXCEPT !.historyIndex = @ - 1]
         IN  [moved EXCEPT !.shapes = at(moved.history, moved.historyIndex),
                           !.isDrawing = FALSE,
                           !.currentPath = <<>>]
    ELSE state

\* Variant: shapes are restored before the cursor moves.
redux_redo_staleEntry(state) ==
    IF canRedo(state.historyIndex, Len(state.history))
    THEN [state EXCEPT !.shapes = at(state.history, state.historyIndex),
                       !.historyIndex = @ + 1,
                       !.isDrawing = FALSE,
                       !.currentPath = <<>>]
    ELSE state

redux_redo(state) ==
    IF canRedo(state.historyIndex, Len(state.history))
    THEN LET moved == [state EXCEPT !.historyIndex = @ + 1]
         IN  [moved EXCEPT !.shapes = at(moved.history, moved.historyIndex),
                           !.isDrawing = FALSE,
                           !.currentPath = <<>>]
    ELSE state

redux_clear(state) ==
    LET cleared == [state EXCEPT !.shapes = <<>>]
        h       == addToHistory(cleared.history, cleared.historyIndex, cleared.shapes,
                                maxHistorySize)
    IN  [cleared EXCEPT !.history = h.history,
                        !.historyIndex = h.historyIndex,
                        !.isDrawing = FALSE,
                        !.currentPath = <<>>]

redux_reset(state) == initialCanvasState

----------------------------------------------------------------------------
(* store/contextStore.tsx: canvasReducer, one operator per case            *)

\* Variant: the cursor stays where it was.
context_ADD_SHAPE_keepsCursor(state, payload, gen) ==
    LET newShape  == createShape(payload.points, payload.color, payload.type, gen)
        newShapes == Append(state.shapes, newShape)
        h         == addToHistory(state.history, state.historyIndex, newShapes,
                                  maxHistorySize)
    IN  [state EXCEPT !.shapes = newShapes,
                      !.history = h.history]

context_ADD_SHAPE(state, payload, gen) ==
    LET newShape  == createShape(payload.points, payload.color, payload.type, gen)
        newShapes == Append(state.shapes, newShape)
        h         == addToHistory(state.history, state.historyIndex, newShapes,
                                  maxHistorySize)
    IN  [state EXCEPT !.shapes = newShapes,
                      !.history = h.history,
                      !.historyIndex = h.historyIndex]

context_CHANGE_COLOR(state, payload) == [state EXCEPT !.currentColor = payload]

context_CHANGE_TOOL(state, payload) == [state EXCEPT !.currentTool = payload]

\* Variant: a stroke in progress is extended instead of replaced.
context_START_DRAWING_extendsPath(state, payload) ==
    IF state.isDrawing
    THEN [state EXCEPT !.currentPath = Append(@, payload)]
    ELSE [state EXCEPT !.isDrawing = TRUE, !.currentPath = <<payload>>]

context_START_DRAWING(state, payload) ==
    [state EXCEPT !.isDrawing = TRUE, !.currentPath = <<payload>>]

context_CONTINUE_DRAWING(state, payload) ==
    IF ~state.isDrawing
    THEN state
    ELSE [state EXCEPT !.currentPath = Append(state.currentPath, payload)]

\* Variant: the persisted stroke stays in currentPath.
context_FINISH_DRAWING_keepsPath(state, gen) ==
    IF ~state.isDrawing \/ Len(state.currentPath) = 0
    THEN [state EXCEPT !.isDrawing = FALSE, !.currentPath = <<>>]
    ELSE LET newShape  == createShape(state.currentPath, state.currentColor,
                                      state.currentTool, gen)
             newShapes == Append(state.shapes, newShape)
             h         == addToHistory(state.history, state.historyIndex, newShapes,
                                       maxHistorySize)
         IN  [state EXCEPT !.shapes = newShapes,
                           !.history = h.history,
                           !.historyIndex = h.historyIndex,
                           !.isDrawing = FALSE]

context_FINISH_DRAWING(state, gen) ==
    IF ~state.isDrawing \/ Len(state.currentPath) = 0
    THEN [state EXCEPT !.isDrawing = FALSE, !.currentPath = <<>>]
    ELSE LET newShape  == createShape(state.currentPath, state.currentColor,
                                      state.currentTool, gen)
             newShapes == Append(state.shapes, newShape)
             h         == addToHistory(state.history, state.historyIndex, newShapes,
                                       maxHistorySize)
         IN  [state EXCEPT !.shapes = newShapes,
                           !.history = h.history,
                           !.historyIndex = h.historyIndex,
                           !.isDrawing = FALSE,
                           !.currentPath = <<>>]

\* Variant: shapes are taken from the entry at the old cursor.
context_UNDO_sameEntry(state) ==
    IF ~canUndo(state.historyIndex)
    THEN state
    ELSE LET newHistoryIndex == state.historyIndex - 1
         IN  [state EXCEPT !.historyIndex = newHistoryIndex,
                           !.shapes = at(state.history, state.historyIndex),
                           !.isDrawing = FALSE,
                           !.currentPath = <<>>]

\* Variant: the stroke in progress is cancelled before the guard.
context_UNDO_cancelsAtStart(state) ==
    IF ~canUndo(state.historyIndex)
    THEN [state EXCEPT !.isDrawing = FALSE, !.currentPath = <<>>]
    ELSE LET newHistoryIndex == state.historyIndex - 1
         IN  [state EXCEPT !.historyIndex = newHistoryIndex,
                           !.shapes = at(state.history, newHistoryIndex),
                           !.isDrawing = FALSE,
                           !.currentPath = <<>>]

context_UNDO(state) ==
    IF ~canUndo(state.historyIndex)
    THEN state
    ELSE LET newHistoryIndex == state.historyIndex - 1
         IN  [state EXCEPT !.historyIndex = newHistoryIndex,
                           !.shapes = at(state.history, newHistoryIndex),
                           !.isDrawing = FALSE,
                           !.currentPath = <<>>]

context_REDO(state) ==
    IF ~canRedo(state.historyIndex, Len(state.history))
    THEN state
    ELSE LET newHistoryIndex == state.historyIndex + 1
         IN  [state EXCEPT !.historyIndex = newHistoryIndex,
                           !.shapes = at(state.history, newHistoryIndex),
                           !.isDrawing = FALSE,
                           !.currentPath = <<>>]

context_CLEAR(state) ==
    LET newShapes == <<>>
        h         == addToHistory(state.history, state.historyIndex, newShapes,
                                  maxHistorySize)
    IN  [state EXCEPT !.shapes = newShapes,
                      !.history = h.history,
                      !.historyIndex = h.historyIndex,
                      !.isDrawing = FALSE,
                      !.currentPath = <<>>]

context_RESET(state) == initialCanvasState

\* The reducer as a whole: the case is chosen by action.type.
canvasReducer(state, action, gen) ==
    CASE action.type = "ADD_SHAPE"        -> context_ADD_SHAPE(state, action.payload, gen)
      [] action.type = "CHANGE_COLOR"     -> context_CHANGE_COLOR(state, action.payload)
      [] action.type = "CHANGE_TOOL"      -> context_CHANGE_TOOL(state, action.payload)
      [] action.type = "START_DRAWING"    -> context_START_DRAWING(state, action.payload)
      [] action.type = "CONTINUE_DRAWING" -> context_CONTINUE_DRAWING(state, action.payload)
      [] action.type = "FINISH_DRAWING"   -> context_FINISH_DRAWING(state, gen)
      [] action.type = "UNDO"             -> context_UNDO(state)
      [] action.type = "REDO"             -> context_REDO(state)
      [] action.type = "CLEAR"            -> context_CLEAR(state)
      [] action.type = "RESET"            -> context_RESET(state)
      [] OTHER                            -> state

----------------------------------------------------------------------------
(* hooks: the adapters and the universal store hook.  A command is the     *)
(* name of a CanvasActions member with its argument.                       *)

useZustandState(state, cmd, gen) ==
    CASE cmd.op = "addShape"        -> zustand_addShape(state, cmd.arg, gen)
      [] cmd.op = "changeColor"     -> zustand_changeColor(state, cmd.arg)
      [] cmd.op = "changeTool"      -> zustand_changeTool(state, cmd.arg)
      [] cmd.op = "startDrawing"    -> zustand_startDrawing(state, cmd.arg)
      [] cmd.op = "continueDrawing" -> zustand_continueDrawing(state, cmd.arg)
      [] cmd.op = "finishDrawing"   -> zustand_finishDrawing(state, state, gen)
      [] cmd.op = "undo"            -> zustand_undo(state)
      [] cmd.op = "redo"            -> zustand_redo(state)
      [] cmd.op = "clear"           -> zustand_clear(state)
      [] cmd.op = "reset"           -> zustand_reset(state)

useReduxState(state, cmd, gen) ==
    CASE cmd.op = "addShape"        -> redux_addShape(state, cmd.arg, gen)
      [] cmd.op = "changeColor"     -> redux_changeColor(state, cmd.arg)
      [] cmd.op = "changeTool"      -> redux_changeTool(state, cmd.arg)
      [] cmd.op = "startDrawing"    -> redux_startDrawing(state, cmd.arg)
      [] cmd.op = "continueDrawing" -> redux_continueDrawing(state, cmd.arg)
      [] cmd.op = "finishDrawing"   -> redux_finishDrawing(state, gen)
      [] cmd.op = "undo"            -> redux_undo(state)
      [] cmd.op = "redo"            -> redux_redo(state)
      [] cmd.op = "clear"           -> redux_clear(state)
      [] cmd.op = "reset"           -> redux_reset(state)

\* CanvasProvider.actions: every member dispatches one reducer action.
useContextState(state, cmd, gen) ==
    CASE cmd.op = "addShape"        ->
            canvasReducer(state, [type |-> "ADD_SHAPE", payload |-> cmd.arg], gen)
      [] cmd.op = "changeColor"     ->
            canvasReducer(state, [type |-> "CHANGE_COLOR", payload |-> cmd.arg], gen)
      [] cmd.op = "changeTool"      ->
            canvasReducer(state, [type |-> "CHANGE_TOOL", payload |-> cmd.arg], gen)
      [] cmd.op = "startDrawing"    ->
            canvasReducer(state, [type |-> "START_DRAWING", payload |-> cmd.arg], gen)
      [] cmd.op = "continueDrawing" ->
            canvasReducer(state, [type |-> "CONTINUE_DRAWING", payload |-> cmd.arg], gen)
      [] cmd.op = "finishDrawing"   -> canvasReducer(state, [type |-> "FINISH_DRAWING"], gen)
      [] cmd.op = "undo"            -> canvasReducer(state, [type |-> "UNDO"], gen)
      [] cmd.op = "redo"            -> canvasReducer(state, [type |-> "REDO"], gen)
      [] cmd.op = "clear"           -> canvasReducer(state, [type |-> "CLEAR"], gen)
      [] cmd.op = "reset"           -> canvasReducer(state, [type |-> "RESET"], gen)

\* STORE_ADAPTERS[storeType]() applied to one command.
useCanvasStore(storeType, state, cmd, gen) ==
    CASE storeType = "zustand" -> useZustandState(state, cmd, gen)
      [] storeType = "redux"   -> useReduxState(state, cmd, gen)
      [] storeType = "context" -> useContextState(state, cmd, gen)

----------------------------------------------------------------------------
(* Inputs of the commands                                                  *)

Points == { [x |-> 10, y |-> 10], [x |-> 20, y |-> 20] }

Colors == { "#000000", "#FF0000" }

ShapeDatas ==
    { [ points |-> << [x |-> 0, y |-> 0], [x |-> 5, y |-> 5] >>,
        color  |-> "#FF0000",
        type   |-> "rectangle" ],
      [ points |-> <<>>, color |-> "#00FF00", type |-> "circle" ] }

\* What generateShapeId() and Date.now() may give one createShape call.
Generated ==
    { [ id |-> "shape_1_a", timestamp |-> 1 ],
      [ id |-> "shape_2_b", timestamp |-> 2 ] }

\* Passed where no shape is created.
unused == [ id |-> "", timestamp |-> 0 ]

noCall == [ history |-> << <<>> >>, cursor |-> 0, newState |-> <<>>, maxSize |-> 1 ]

noRet == [ returned |-> FALSE, history |-> <<>>, historyIndex |-> 0 ]

----------------------------------------------------------------------------
(* The running application: StoreManager with its store selector, and the  *)
(* commands the components dispatch through useCanvasStore().              *)

\* Size of one CanvasState, to bound the exploration: the history entries
\* after the first, the points they hold, the points of the stroke in
\* progress, and one for a colour or a tool that is not the initial one.
RECURSIVE PointsIn(_)
PointsIn(shapes) ==
    IF shapes = <<>> THEN 0 ELSE Len(Head(shapes).points) + PointsIn(Tail(shapes))

RECURSIVE PointsInAll(_)
PointsInAll(history) ==
    IF history = <<>> THEN 0 ELSE PointsIn(Head(history)) + PointsInAll(Tail(history))

Weight(s) ==
    (Len(s.history) - 1) + PointsInAll(s.history) + Len(s.currentPath)
      + (IF s.currentColor = initialCanvasState.currentColor THEN 0 ELSE 1)
      + (IF s.currentTool = initialCanvasState.currentTool THEN 0 ELSE 1)

Fits(st) ==
    Weight(st["zustand"]) + Weight(st["redux"]) + Weight(st["context"]) <= MaxWeight

Init ==
    /\ currentStore = defaultStore
    /\ store = [ b \in StoreType |-> initialCanvasState ]
    /\ args = noCall
    /\ ret = noRet

\* Variant: the command reaches the three stores.
Dispatch_broadcast(cmd, gen) ==
    [ b \in StoreType |-> useCanvasStore(b, store[b], cmd, gen) ]

\* The stores after one command dispatched through the universal interface:
\* it reaches the store of the selected type only.
Dispatch(cmd, gen) ==
    [store EXCEPT ![currentStore] = useCanvasStore(currentStore, @, cmd, gen)]

AddShape ==
    \E shapeData \in ShapeDatas, gen \in Generated :
        /\ store' = Dispatch([op |-> "addShape", arg |-> shapeData], gen)
        /\ Fits(store')
        /\ UNCHANGED <<currentStore, args, ret>>

ChangeColor ==
    \E color \in Colors :
        /\ store' = Dispatch([op |-> "changeColor", arg |-> color], unused)
        /\ Fits(store')
        /\ UNCHANGED <<currentStore, args, ret>>

ChangeTool ==
    \E tool \in DrawingTool :
        /\ store' = Dispatch([op |-> "changeTool", arg |-> tool], unused)
        /\ Fits(store')
        /\ UNCHANGED <<currentStore, args, ret>>

StartDrawing ==
    \E point \in Points :
        /\ store' = Dispatch([op |-> "startDrawing", arg |-> point], unused)
        /\ Fits(store')
        /\ UNCHANGED <<currentStore, args, ret>>

ContinueDrawing ==
    \E point \in Points :
        /\ store' = Dispatch([op |-> "continueDrawing", arg |-> point], unused)
        /\ Fits(store')
        /\ UNCHANGED <<currentStore, args, ret>>

FinishDrawing ==
    \E gen \in Generated :
        /\ store' = Dispatch([op |-> "finishDrawing"], gen)
        /\ Fits(store')
        /\ UNCHANGED <<currentStore, args, ret>>

Undo ==
    /\ store' = Dispatch([op |-> "undo"], unused)
    /\ Fits(store')
    /\ UNCHANGED <<currentStore, args, ret>>

Redo ==
    /\ store' = Dispatch([op |-> "redo"], unused)
    /\ Fits(store')
    /\ UNCHANGED <<currentStore, args, ret>>

Clear ==
    /\ store' = Dispatch([op |-> "clear"], unused)
    /\ Fits(store')
    /\ UNCHANGED <<currentStore, args, ret>>

Reset ==
    /\ store' = Dispatch([op |-> "reset"], unused)
    /\ Fits(store')
    /\ UNCHANGED <<currentStore, args, ret>>

\* StoreManager.handleStoreChange followed by the re-render of
\* UniversalProvider: the zustand and redux stores are module-level
\* singletons and keep their state; CanvasProvider is mounted only while
\* 'context' is selected and starts from initialCanvasState at every mount.
\* Variant: the store being selected starts afresh.
handleStoreChange_resetsTarget(newStoreType) ==
    IF newStoreType = currentStore
    THEN store
    ELSE [ b \in StoreType |->
             IF b \in { newStoreType, "context" } THEN initialCanvasState ELSE store[b] ]

\* Variant: the state of CanvasProvider outlives its unmount.
handleStoreChange_keepsContext(newStoreType) == store

\* Variant: no early return, CanvasProvider is mounted afresh at every call.
handleStoreChange_alwaysRemounts(newStoreType) ==
    [store EXCEPT !["context"] = initialCanvasState]

handleStoreChange(newStoreType) ==
    IF newStoreType = currentStore
    THEN store
    ELSE [store EXCEPT !["context"] = initialCanvasState]

Switch ==
    \E newStoreType \in StoreType :
        /\ currentStore' = newStoreType
        /\ store' = handleStoreChange(newStoreType)
        /\ UNCHANGED <<args, ret>>

Next ==
    \/ AddShape
    \/ ChangeColor
    \/ ChangeTool
    \/ StartDrawing
    \/ ContinueDrawing
    \/ FinishDrawing
    \/ Undo
    \/ Redo
    \/ Clear
    \/ Reset
    \/ Switch

Spec == Init /\ [][Next]_vars

----------------------------------------------------------------------------
(* The switch called with any string: StoreType is a compile-time union,   *)
(* UniversalProvider and useCanvasStore test the value at run time         *)

\* A value outside the StoreType union next to its three members.
AnyStoreType == StoreType \cup { "unknown" }

\* The outcome of rendering UniversalProvider: its useMemo switch throws on
\* any other value, and no error boundary is mounted above it.
UniversalProvider(storeType) ==
    IF storeType \in { "zustand", "redux", "context" }
    THEN "rendered"
    ELSE "Error: Unknown store type"

\* handleStoreChange compares and calls setCurrentStore without looking at
\* the value; the render that follows decides whether a provider is mounted.
SwitchAny ==
    /\ UniversalProvider(currentStore) = "rendered"
    /\ \E newStoreType \in AnyStoreType :
          /\ currentStore' = newStoreType
          /\ store' = handleStoreChange(newStoreType)
          /\ UNCHANGED <<args, ret>>

\* Commands come from the components under the provider.
NextUntyped ==
    \/ UniversalProvider(currentStore) = "rendered" /\ AddShape
    \/ UniversalProvider(currentStore) = "rendered" /\ ChangeColor
    \/ UniversalProvider(currentStore) = "rendered" /\ ChangeTool
    \/ UniversalProvider(currentStore) = "rendered" /\ StartDrawing
    \/ UniversalProvider(currentStore) = "rendered" /\ ContinueDrawing
    \/ UniversalProvider(currentStore) = "rendered" /\ FinishDrawing
    \/ UniversalProvider(currentStore) = "rendered" /\ Undo
    \/ UniversalProvider(currentStore) = "rendered" /\ Redo
    \/ UniversalProvider(currentStore) = "rendered" /\ Clear
    \/ UniversalProvider(currentStore) = "rendered" /\ Reset
    \/ SwitchAny

SpecUntyped == Init /\ [][NextUntyped]_vars

----------------------------------------------------------------------------
(* The zustand store with finishDrawing in its two steps: const state =    *)
(* get(), then set((draft) => ...). args holds what get() returned while   *)
(* the call is between the two                                             *)

\* Variant: a handler can start while finishDrawing is between get() and
\* set(), as if the call awaited there.
EventLoopIdle_yields(call) == TRUE

\* The handlers of CanvasEditor and the store actions are synchronous: the
\* next event is handled once the running handler has returned.
EventLoopIdle(call) == call = noCall

ZustandCommand(cmd, gen) ==
    [store EXCEPT !["zustand"] = useZustandState(@, cmd, gen)]

ZustandAddShape ==
    /\ EventLoopIdle(args)
    /\ \E shapeData \in ShapeDatas, gen \in Generated :
          store' = ZustandCommand([op |-> "addShape", arg |-> shapeData], gen)
    /\ Fits(store')
    /\ UNCHANGED <<currentStore, args, ret>>

ZustandChangeColor ==
    /\ EventLoopIdle(args)
    /\ \E color \in Colors :
          store' = ZustandCommand([op |-> "changeColor", arg |-> color], unused)
    /\ Fits(store')
    /\ UNCHANGED <<currentStore, args, ret>>

ZustandChangeTool ==
    /\ EventLoopIdle(args)
    /\ \E tool \in DrawingTool :
          store' = ZustandCommand([op |-> "changeTool", arg |-> tool], unused)
    /\ Fits(store')
    /\ UNCHANGED <<currentStore, args, ret>>

ZustandStartDrawing ==
    /\ EventLoopIdle(args)
    /\ \E point \in Points :
          store' = ZustandCommand([op |-> "startDrawing", arg |-> point], unused)
    /\ Fits(store')
    /\ UNCHANGED <<currentStore, args, ret>>

ZustandContinueDrawing ==
    /\ EventLoopIdle(args)
    /\ \E point \in Points :
          store' = ZustandCommand([op |-> "continueDrawing", arg |-> point], unused)
    /\ Fits(store')
    /\ UNCHANGED <<currentStore, args, ret>>

\* const state = get()
ZustandFinishDrawingGet ==
    /\ EventLoopIdle(args)
    /\ args' = [ state |-> store["zustand"] ]
    /\ UNCHANGED <<currentStore, store, ret>>

\* set((draft) => ...) of either branch, and the return.
ZustandFinishDrawingSet ==
    /\ args # noCall
    /\ \E gen \in Generated :
          store' = [store EXCEPT !["zustand"] = zustand_finishDrawing(args.state, @, gen)]
    /\ args' = noCall
    /\ UNCHANGED <<currentStore, ret>>

ZustandUndo ==
    /\ EventLoopIdle(args)
    /\ store' = ZustandCommand([op |-> "undo"], unused)
    /\ UNCHANGED <<currentStore, args, ret>>

ZustandRedo ==
    /\ EventLoopIdle(args)
    /\ store' = ZustandCommand([op |-> "redo"], unused)
    /\ UNCHANGED <<currentStore, args, ret>>

ZustandClear ==
    /\ EventLoopIdle(args)
    /\ store' = ZustandCommand([op |-> "clear"], unused)
    /\ Fits(store')
    /\ UNCHANGED <<currentStore, args, ret>>

ZustandReset ==
    /\ EventLoopIdle(args)
    /\ store' = ZustandCommand([op |-> "reset"], unused)
    /\ UNCHANGED <<currentStore, args, ret>>

NextZustandCalls ==
    \/ ZustandAddShape
    \/ ZustandChangeColor
    \/ ZustandChangeTool
    \/ ZustandStartDrawing
    \/ ZustandContinueDrawing
    \/ ZustandFinishDrawingGet
    \/ ZustandFinishDrawingSet
    \/ ZustandUndo
    \/ ZustandRedo
    \/ ZustandClear
    \/ ZustandReset

SpecZustandCalls == Init /\ [][NextZustandCalls]_vars

----------------------------------------------------------------------------
(* Replay: the same command sequence applied to the three back ends        *)
(* independently, each from initialCanvasState and each with its own       *)
(* generated ids and timestamps.                                           *)

plainShape ==
    createShape(<< [x |-> 0, y |-> 0], [x |-> 5, y |-> 5] >>, "#FF0000", "rectangle",
                [ id |-> "shape_1_a", timestamp |-> 1 ])

\* The states explored whatever their weight: idle,
\* initial colour and tool, and every history entry empty but possibly one
\* of the two oldest.
Plain(s) ==
    /\ s.currentColor = initialCanvasState.currentColor
    /\ s.currentTool = initialCanvasState.currentTool
    /\ ~s.isDrawing
    /\ s.currentPath = <<>>
    /\ \A i \in 1..Len(s.history) :
          \/ s.history[i] = <<>>
          \/ i <= 2 /\ s.history[i] = <<plainShape>>

Explored(st) ==
    \A b \in StoreType :
        /\ Len(st[b].currentPath) <= MaxPath
        /\ Plain(st[b]) \/ Weight(st[b]) <= MaxReplayWeight

\* What the three stores generate while they handle the same command: the
\* same values by chance, or three different ones.
GeneratedByStores ==
    { [ b \in StoreType |-> [ id |-> "shape_1_a", timestamp |-> 1 ] ],
      [ zustand |-> [ id |-> "shape_2_b", timestamp |-> 2 ],
        redux   |-> [ id |-> "shape_3_c", timestamp |-> 3 ],
        context |-> [ id |-> "shape_4_d", timestamp |-> 4 ] ] }

noGens == [ b \in StoreType |-> unused ]

\* The stores after the command is applied to each of them; gens[b] is what
\* store b generates meanwhile.
Replay(cmd, gens) ==
    [ b \in StoreType |-> useCanvasStore(b, store[b], cmd, gens[b]) ]

ReplayAddShape ==
    \E shapeData \in ShapeDatas, gens \in GeneratedByStores :
        /\ store' = Replay([op |-> "addShape", arg |-> shapeData], gens)
        /\ Explored(store')
        /\ UNCHANGED <<currentStore, args, ret>>

ReplayChangeColor ==
    \E color \in Colors :
        /\ store' = Replay([op |-> "changeColor", arg |-> color], noGens)
        /\ Explored(store')
        /\ UNCHANGED <<currentStore, args, ret>>

ReplayChangeTool ==
    \E tool \in DrawingTool :
        /\ store' = Replay([op |-> "changeTool", arg |-> tool], noGens)
        /\ Explored(store')
        /\ UNCHANGED <<currentStore, args, ret>>

ReplayStartDrawing ==
    \E point \in Points :
        /\ store' = Replay([op |-> "startDrawing", arg |-> point], noGens)
        /\ Explored(store')
        /\ UNCHANGED <<currentStore, args, ret>>

ReplayContinueDrawing ==
    \E point \in Points :
        /\ store' = Replay([op |-> "continueDrawing", arg |-> point], noGens)
        /\ Explored(store')
        /\ UNCHANGED <<currentStore, args, ret>>

ReplayFinishDrawing ==
    \E gens \in GeneratedByStores :
        /\ store' = Replay([op |-> "finishDrawing"], gens)
        /\ Explored(store')
        /\ UNCHANGED <<currentStore, args, ret>>

ReplayUndo ==
    /\ store' = Replay([op |-> "undo"], noGens)
    /\ Explored(store')
    /\ UNCHANGED <<currentStore, args, ret>>

ReplayRedo ==
    /\ store' = Replay([op |-> "redo"], noGens)
    /\ Explored(store')
    /\ UNCHANGED <<currentStore, args, ret>>

ReplayClear ==
    /\ store' = Replay([op |-> "clear"], noGens)
    /\ Explored(store')
    /\ UNCHANGED <<currentStore, args, ret>>

ReplayReset ==
    /\ store' = Replay([op |-> "reset"], noGens)
    /\ Explored(store')
    /\ UNCHANGED <<currentStore, args, ret>>

NextReplay ==
    \/ ReplayAddShape
    \/ ReplayChangeColor
    \/ ReplayChangeTool
    \/ ReplayStartDrawing
    \/ ReplayContinueDrawing
    \/ ReplayFinishDrawing
    \/ ReplayUndo
    \/ ReplayRedo
    \/ ReplayClear
    \/ ReplayReset

SpecReplay == Init /\ [][NextReplay]_vars

----------------------------------------------------------------------------
(* components/Toolbar.tsx: the history dropdown, replayed on the three     *)
(* stores                                                                  *)

RECURSIVE dispatchLoop(_, _, _, _)
\* for (let i = 0; i < bound; i++) { canvasStore.undo() or .redo() }: run
\* holds the state of the store and the commands dispatched so far, i being
\* their number.
dispatchLoop(storeType, run, op, bound) ==
    IF Len(run.dispatched) < bound
    THEN dispatchLoop(storeType,
                      [ state      |-> useCanvasStore(storeType, run.state,
                                                      [op |-> op], unused),
                        dispatched |-> Append(run.dispatched, op) ],
                      op, bound)
    ELSE run

\* Variant: the loops run once more (i <= bound).
historyDropdown_onChange_oneMore(storeType, state, targetIndex) ==
    LET steps == targetIndex - state.historyIndex
        run   == [ state |-> state, dispatched |-> <<>> ]
    IN  IF steps < 0
        THEN dispatchLoop(storeType, run, "undo", (0 - steps) + 1)
        ELSE IF steps > 0
             THEN dispatchLoop(storeType, run, "redo", steps + 1)
             ELSE run

\* onChange of the history dropdown: targetIndex = parseInt(e.target.value),
\* steps = targetIndex - canvasStore.historyIndex.
historyDropdown_onChange(storeType, state, targetIndex) ==
    LET steps == targetIndex - state.historyIndex
        run   == [ state |-> state, dispatched |-> <<>> ]
    IN  IF steps < 0
        THEN dispatchLoop(storeType, run, "undo", 0 - steps)
        ELSE IF steps > 0
             THEN dispatchLoop(storeType, run, "redo", steps)
             ELSE run

\* The stores after the option targetIndex is selected.
SelectHistoryStep(targetIndex) ==
    [ b \in StoreType |-> historyDropdown_onChange(b, store[b], targetIndex).state ]

\* The dropdown has one option per history entry and is disabled while the
\* history has a single entry.
ReplaySelectHistoryStep ==
    /\ \A b \in StoreType : Len(store[b].history) > 1
    /\ \E targetIndex \in 0..(Len(store[defaultStore].history) - 1) :
          /\ \A b \in StoreType : targetIndex < Len(store[b].history)
          /\ store' = SelectHistoryStep(targetIndex)
          /\ Explored(store')
    /\ UNCHANGED <<currentStore, args, ret>>

NextToolbar ==
    \/ ReplayAddShape
    \/ ReplayChangeColor
    \/ ReplayChangeTool
    \/ ReplayStartDrawing
    \/ ReplayContinueDrawing
    \/ ReplayFinishDrawing
    \/ ReplayUndo
    \/ ReplayRedo
    \/ ReplayClear
    \/ ReplayReset
    \/ ReplaySelectHistoryStep

SpecToolbar == Init /\ [][NextToolbar]_vars

----------------------------------------------------------------------------
(* A direct call of utils.addToHistory on arbitrary arguments              *)

otherShape ==
    createShape(<< [x |-> 10, y |-> 10] >>, "#000000", "pen",
                [ id |-> "shape_2_b", timestamp |-> 2 ])

Snapshots == { <<>>, <<plainShape>>, <<plainShape, otherShape>> }

RECURSIVE SeqsUpTo(_, _)
SeqsUpTo(S, n) ==
    IF n = 0
    THEN { <<>> }
    ELSE LET shorter == SeqsUpTo(S, n - 1)
         IN  shorter \cup { Append(q, e) : q \in shorter, e \in S }

CallArgs ==
    { [ history |-> h, cursor |-> c, newState |-> n, maxSize |-> m ] :
        h \in SeqsUpTo(Snapshots, MaxCallHistory) \ { <<>> },
        c \in 0..(MaxCallHistory - 1),
        n \in Snapshots,
        m \in 0..MaxCallSize }

InitCall ==
    /\ currentStore = defaultStore
    /\ store = [ b \in StoreType |-> initialCanvasState ]
    /\ args \in { a \in CallArgs : a.cursor < Len(a.history) }
    /\ ret = noRet

CallAddToHistory ==
    /\ ~ret.returned
    /\ LET r == addToHistory(args.history, args.cursor, args.newState, args.maxSize)
       IN  ret' = [ returned     |-> TRUE,
                    history      |-> r.history,
                    historyIndex |-> r.historyIndex ]
    /\ UNCHANGED <<currentStore, store, args>>

NextCall == CallAddToHistory

SpecCall == InitCall /\ [][NextCall]_vars

----------------------------------------------------------------------------
(* Properties                                                              *)

\* C1: in every state reached by commands and store switches, the history
\* entry at historyIndex of the active store equals its shapes.
C1_HistoryAtIndexIsShapes ==
    LET s == store[currentStore]
    IN  /\ s.historyIndex \in 0..(Len(s.history) - 1)
        /\ at(s.history, s.historyIndex) = s.shapes

\* The context store is active after a switch, with two commits and one undo.
C1_Witness ==
    LET s == store["context"]
    IN  /\ currentStore = "context"
        /\ Len(s.history) = 3
        /\ s.historyIndex = 1
        /\ s.shapes # <<>>

\* C2: a switch to another store type leaves the shapes that are read
\* through the universal interface as they were, in the same order.
C2_SwitchPreservesShapes ==
    [][ currentStore' # currentStore
          => store'[currentStore'].shapes = store[currentStore].shapes ]_vars

StripShape(shape) ==
    [ points |-> shape.points, color |-> shape.color, type |-> shape.type ]

StripShapes(shapes) == [ i \in 1..Len(shapes) |-> StripShape(shapes[i]) ]

\* A CanvasState without the generated ids and timestamps of its shapes.
Observable(s) ==
    [ s EXCEPT !.shapes  = StripShapes(@),
               !.history = [ i \in 1..Len(@) |-> StripShapes(@[i]) ] ]

\* C3: after every step of a command sequence replayed against the three
\* stores, their states agree on every field, generated ids and timestamps
\* aside.
C3_BackendsAgree ==
    /\ Observable(store["zustand"]) = Observable(store["redux"])
    /\ Observable(store["redux"]) = Observable(store["context"])

\* A shape whose generated id differs between two stores, a stroke in
\* progress and a changed colour.
C3_Witness ==
    /\ store["zustand"].shapes # <<>>
    /\ store["redux"].shapes # <<>>
    /\ store["zustand"].shapes[1].id # store["redux"].shapes[1].id
    /\ store["context"].isDrawing
    /\ store["context"].currentColor = "#FF0000"

\* C4: history is never empty and historyIndex is a position of it.
C4_IndexInRange ==
    \A b \in StoreType :
        /\ Len(store[b].history) >= 1
        /\ store[b].historyIndex >= 0
        /\ store[b].historyIndex < Len(store[b].history)

\* A full history whose initial entry has been dropped, undone to its start.
C4_Witness ==
    \A b \in StoreType :
        /\ Len(store[b].history) = maxHistorySize
        /\ store[b].historyIndex = 0
        /\ store[b].shapes = <<plainShape>>

\* C5: history never holds more than 50 entries.
C5_HistoryCapped ==
    \A b \in StoreType : Len(store[b].history) <= 50

\* The cap has been reached and exceeded: the initial entry is gone.
C5_Witness ==
    \A b \in StoreType :
        /\ Len(store[b].history) = 50
        /\ store[b].historyIndex = 49
        /\ store[b].history[1] = <<plainShape>>

\* The step applies a committing command to store b: addShape, clear, or
\* finishDrawing on a stroke in progress with a non-empty path.
Commits(b) ==
    \E gens \in GeneratedByStores :
        \/ \E shapeData \in ShapeDatas :
              store'[b] = useCanvasStore(b, store[b],
                                         [op |-> "addShape", arg |-> shapeData], gens[b])
        \/ store'[b] = useCanvasStore(b, store[b], [op |-> "clear"], gens[b])
        \/ /\ store[b].isDrawing
           /\ Len(store[b].currentPath) > 0
           /\ store'[b] = useCanvasStore(b, store[b], [op |-> "finishDrawing"], gens[b])

\* C6: a commit with the cursor k below the last entry gives a history of
\* k+2 entries: the old entries 0..k unchanged, then the new shape-set.
C6_BranchTruncation ==
    [][ \A b \in StoreType :
          LET s == store[b]
              t == store'[b]
              k == s.historyIndex
          IN  (k < Len(s.history) - 1 /\ Commits(b))
                => /\ Len(t.history) = k + 2
                   /\ SubSeq(t.history, 1, k + 1) = SubSeq(s.history, 1, k + 1)
                   /\ t.history[k + 2] = t.shapes ]_vars

\* A two-entry history that starts with a shape: a commit at cursor 0 of a
\* full history whose initial entry had been dropped.
C6_Witness ==
    \A b \in StoreType :
        /\ store[b].history = << <<plainShape>>, <<>> >>
        /\ store[b].historyIndex = 1

\* What C7 expects of a call: the last min(cursor+2, maxSize) entries of
\* history[0..cursor] followed by newState.
ExpectedHistory(a) ==
    LET full == Append(SubSeq(a.history, 1, a.cursor + 1), a.newState)
        n    == Min(a.cursor + 2, a.maxSize)
    IN  SubSeq(full, Len(full) - n + 1, Len(full))

\* C7 as stated: for every call with 0 <= cursor < history.length the
\* returned history is the last min(cursor+2, maxSize) entries of
\* history[0..cursor] ++ [newState] and the returned index is its last.
C7_AddToHistoryAnySize ==
    ret.returned =>
        /\ ret.history = ExpectedHistory(args)
        /\ ret.historyIndex = Len(ret.history) - 1

\* C7 amended: the same, for calls with maxSize >= 1.
C7_AddToHistory ==
    (ret.returned /\ args.maxSize >= 1) =>
        /\ ret.history = ExpectedHistory(args)
        /\ ret.historyIndex = Len(ret.history) - 1

\* A call that discards a redo branch and drops an old entry for the cap.
C7_Witness ==
    /\ ret.returned
    /\ args.maxSize = 2
    /\ args.cursor = 1
    /\ Len(args.history) = 3
    /\ args.history[1] # args.history[2]
    /\ Len(ret.history) = 2

\* C8: undo with historyIndex > 0 moves the cursor down by one, sets shapes
\* to the entry there, ends the stroke in progress, and leaves history,
\* currentColor and currentTool alone.
C8_UndoEffect ==
    [][ \A b \in StoreType :
          LET s == store[b]
              t == store'[b]
          IN  (ReplayUndo /\ s.historyIndex > 0)
                => /\ t.historyIndex = s.historyIndex - 1
                   /\ t.shapes = s.history[t.historyIndex + 1]
                   /\ t.isDrawing = FALSE
                   /\ t.currentPath = <<>>
                   /\ t.history = s.history
                   /\ t.currentColor = s.currentColor
                   /\ t.currentTool = s.currentTool ]_vars

\* An undone shape: the cursor is below an entry with a shape, no stroke is
\* in progress and the changed colour is still there.
C8_Witness ==
    \A b \in StoreType :
        /\ store[b].historyIndex = 0
        /\ Len(store[b].history) = 2
        /\ store[b].history[2] # <<>>
        /\ store[b].shapes = <<>>
        /\ ~store[b].isDrawing
        /\ store[b].currentColor = "#FF0000"

\* C9: redo with historyIndex < history.length - 1 moves the cursor up by
\* one, sets shapes to the entry there, ends the stroke in progress, and
\* leaves history, currentColor and currentTool alone.
C9_RedoEffect ==
    [][ \A b \in StoreType :
          LET s == store[b]
              t == store'[b]
          IN  (ReplayRedo /\ s.historyIndex < Len(s.history) - 1)
                => /\ t.historyIndex = s.historyIndex + 1
                   /\ t.shapes = s.history[t.historyIndex + 1]
                   /\ t.isDrawing = FALSE
                   /\ t.currentPath = <<>>
                   /\ t.history = s.history
                   /\ t.currentColor = s.currentColor
                   /\ t.currentTool = s.currentTool ]_vars

\* A cursor in the middle of the history, on an entry with a shape, with a
\* changed tool: one more redo is possible.
C9_Witness ==
    \A b \in StoreType :
        /\ Len(store[b].history) = 3
        /\ store[b].historyIndex = 1
        /\ store[b].shapes # <<>>
        /\ ~store[b].isDrawing
        /\ store[b].currentTool = "circle"

\* C10: undo at historyIndex = 0 and redo at the last entry change nothing,
\* a stroke in progress included.
C10_BoundaryNoOp ==
    [][ \A b \in StoreType :
          /\ (ReplayUndo /\ store[b].historyIndex = 0) => store'[b] = store[b]
          /\ (ReplayRedo /\ store[b].historyIndex = Len(store[b].history) - 1)
                => store'[b] = store[b] ]_vars

\* A stroke in progress at a cursor that is both the first and the last.
C10_Witness ==
    \A b \in StoreType :
        /\ store[b].historyIndex = 0
        /\ Len(store[b].history) = 1
        /\ store[b].isDrawing
        /\ Len(store[b].currentPath) = 2

----------------------------------------------------------------------------
(* Commands of the drawing flow and of the canvas                          *)

Last(a) == a[Len(a)]

\* The history or its cursor changed.
HistoryTouched(s, t) ==
    t.history # s.history \/ t.historyIndex # s.historyIndex

\* C11: finishDrawing appends one shape to shapes and commits a history
\* entry exactly when isDrawing is true and currentPath is non-empty
\* beforehand; it always ends with isDrawing = false and currentPath = [],
\* and when no shape is persisted shapes, history and historyIndex are
\* unchanged.
C11_FinishDrawing ==
    [][ \A b \in StoreType :
          LET s        == store[b]
              t        == store'[b]
              persists == s.isDrawing /\ Len(s.currentPath) > 0
          IN  ReplayFinishDrawing
                => /\ t.isDrawing = FALSE
                   /\ t.currentPath = <<>>
                   /\ persists
                        => /\ Len(t.shapes) = Len(s.shapes) + 1
                           /\ SubSeq(t.shapes, 1, Len(s.shapes)) = s.shapes
                           /\ HistoryTouched(s, t)
                           /\ Last(t.history) = t.shapes
                           /\ t.historyIndex = Len(t.history) - 1
                   /\ ~persists
                        => /\ t.shapes = s.shapes
                           /\ t.history = s.history
                           /\ t.historyIndex = s.historyIndex ]_vars

\* A one-point stroke persisted under a changed colour, no stroke left.
C11_Witness ==
    \A b \in StoreType :
        /\ Len(store[b].shapes) = 1
        /\ store[b].shapes[1].type = "pen"
        /\ Len(store[b].shapes[1].points) = 1
        /\ store[b].shapes[1].color = "#FF0000"
        /\ store[b].history = << <<>>, store[b].shapes >>
        /\ ~store[b].isDrawing
        /\ store[b].currentPath = <<>>

\* The states of the stroke scenario before finishDrawing.
strokeStarted(p1) ==
    [initialCanvasState EXCEPT !.isDrawing = TRUE, !.currentPath = <<p1>>]

strokeContinued(p1, p2) ==
    [initialCanvasState EXCEPT !.isDrawing = TRUE, !.currentPath = <<p1, p2>>]

\* C12: the shape persisted by finishDrawing has the points of currentPath,
\* the colour currentColor and the type currentTool as they are when
\* finishDrawing runs; from the initial state startDrawing(p1),
\* continueDrawing(p2), finishDrawing gives one pen shape with points
\* [p1, p2], a history of length 2 and historyIndex 1.
C12_PersistedShape ==
    [][ \A b \in StoreType :
          LET s == store[b]
              t == store'[b]
          IN  /\ (ReplayFinishDrawing /\ s.isDrawing /\ Len(s.currentPath) > 0)
                    => StripShape(Last(t.shapes))
                         = [ points |-> s.currentPath,
                             color  |-> s.currentColor,
                             type   |-> s.currentTool ]
              /\ \A p1, p2 \in Points :
                    /\ ( /\ s = initialCanvasState
                         /\ store' = Replay([op |-> "startDrawing", arg |-> p1], noGens) )
                          => t = strokeStarted(p1)
                    /\ ( /\ s = strokeStarted(p1)
                         /\ store' = Replay([op |-> "continueDrawing", arg |-> p2], noGens) )
                          => t = strokeContinued(p1, p2)
                    /\ (s = strokeContinued(p1, p2) /\ ReplayFinishDrawing)
                          => /\ Len(t.shapes) = 1
                             /\ t.shapes[1].points = <<p1, p2>>
                             /\ t.shapes[1].type = "pen"
                             /\ Len(t.history) = 2
                             /\ t.historyIndex = 1 ]_vars

\* The end of the scenario: the stroke (10,10), (20,20) is the only shape.
C12_Witness ==
    \A b \in StoreType :
        /\ Len(store[b].shapes) = 1
        /\ store[b].shapes[1].points = << [x |-> 10, y |-> 10], [x |-> 20, y |-> 20] >>
        /\ store[b].shapes[1].type = "pen"
        /\ store[b].shapes[1].color = "#000000"
        /\ Len(store[b].history) = 2
        /\ store[b].historyIndex = 1
        /\ ~store[b].isDrawing

\* t holds the commit of the shape list newShapes made in s: the entries up
\* to the cursor of s, then newShapes, the cursor on it.
Committed(s, t, newShapes) ==
    /\ Len(t.history) = Min(s.historyIndex + 2, maxHistorySize)
    /\ Last(t.history) = newShapes
    /\ t.historyIndex = Len(t.history) - 1
    /\ \A k \in 1..(Len(t.history) - 1) :
          t.history[k] = s.history[k + (s.historyIndex + 2 - Len(t.history))]

\* C13: addShape(points, color, kind) appends exactly one shape with the
\* given points, colour and kind after the existing shapes, which stay as
\* they are and in order, and commits the new shape list; after an undo it
\* discards the redo branch: initial state, one stroke, undo, addShape of a
\* rectangle gives a history of length 2 and one rectangle shape.
C13_AddShape ==
    [][ \A shapeData \in ShapeDatas, gens \in GeneratedByStores :
          store' = Replay([op |-> "addShape", arg |-> shapeData], gens)
            => \A b \in StoreType :
                 LET s == store[b]
                     t == store'[b]
                 IN  /\ Len(t.shapes) = Len(s.shapes) + 1
                     /\ SubSeq(t.shapes, 1, Len(s.shapes)) = s.shapes
                     /\ StripShape(Last(t.shapes)) = shapeData
                     /\ Committed(s, t, t.shapes)
                     /\ ( /\ s.shapes = <<>>
                          /\ s.historyIndex = 0
                          /\ Len(s.history) = 2
                          /\ Len(s.history[2]) = 1
                          /\ s.history[2][1].type = "pen"
                          /\ shapeData.type = "rectangle" )
                          => /\ Len(t.history) = 2
                             /\ Len(t.shapes) = 1
                             /\ t.shapes[1].type = "rectangle" ]_vars

\* The end of the scenario: one red rectangle on a canvas whose current
\* colour and tool are black and pen, in a history of two entries.
C13_Witness ==
    \A b \in StoreType :
        /\ Len(store[b].shapes) = 1
        /\ store[b].shapes[1].type = "rectangle"
        /\ store[b].shapes[1].color = "#FF0000"
        /\ store[b].shapes[1].points = << [x |-> 0, y |-> 0], [x |-> 5, y |-> 5] >>
        /\ store[b].currentColor = "#000000"
        /\ store[b].currentTool = "pen"
        /\ Len(store[b].history) = 2
        /\ store[b].historyIndex = 1

\* C14: clear sets shapes to [] and always commits a history entry, also
\* when shapes is already empty, and ends with isDrawing = false and
\* currentPath = []; at the end of a history shorter than 50 entries the
\* history grows by exactly one entry.
C14_Clear ==
    [][ \A b \in StoreType :
          LET s == store[b]
              t == store'[b]
          IN  ReplayClear
                => /\ t.shapes = <<>>
                   /\ Committed(s, t, <<>>)
                   /\ t.isDrawing = FALSE
                   /\ t.currentPath = <<>>
                   /\ ( /\ s.historyIndex = Len(s.history) - 1
                        /\ Len(s.history) < 50 )
                        => Len(t.history) = Len(s.history) + 1 ]_vars

\* An empty canvas cleared twice: three empty snapshots in a row.
C14_Witness ==
    \A b \in StoreType :
        /\ store[b].history = << <<>>, <<>>, <<>> >>
        /\ store[b].historyIndex = 2
        /\ store[b].shapes = <<>>
        /\ ~store[b].isDrawing

\* C15: a commit at the end of the history makes it one entry longer up to
\* 50 entries, so that 49 or more commits in a row from the initial state
\* (clear dispatched 60 times) give history.length = 50 and
\* historyIndex = 49; each further commit drops exactly the oldest entry.
C15_CapScenario ==
    [][ \A b \in StoreType :
          LET s == store[b]
              t == store'[b]
          IN  (Commits(b) /\ s.historyIndex = Len(s.history) - 1)
                => /\ Len(t.history) = Min(Len(s.history) + 1, 50)
                   /\ t.historyIndex = Len(t.history) - 1
                   /\ Len(s.history) = 50
                        => /\ t.historyIndex = 49
                           /\ \A k \in 1..49 : t.history[k] = s.history[k + 1]
                           /\ t.history[50] = t.shapes ]_vars

\* Exactly 49 commits from the initial state: the initial entry is still the
\* oldest of 50, the first commit is next to it, the cursor is on the last.
C15_Witness ==
    \A b \in StoreType :
        /\ Len(store[b].history) = 50
        /\ store[b].historyIndex = 49
        /\ store[b].history[1] = <<>>
        /\ store[b].history[2] = <<plainShape>>

\* C16: right after a committing command (addShape, a finishDrawing that
\* persists a shape, clear) historyIndex = history.length - 1, so that a
\* following redo changes nothing: the redo branch is lost once an edit is
\* made after an undo.
C16_CommitEndsAtLast ==
    [][ \A b \in StoreType :
          LET t == store'[b]
          IN  Commits(b)
                => /\ t.historyIndex = Len(t.history) - 1
                   /\ ~canRedo(t.historyIndex, Len(t.history))
                   /\ useCanvasStore(b, t, [op |-> "redo"], unused) = t ]_vars

\* A history that lost its initial entry to the cap and is now three entries
\* long: an edit was committed after undos, the cursor is on it.
C16_Witness ==
    \A b \in StoreType :
        /\ store[b].history = << <<plainShape>>, <<>>, <<>> >>
        /\ store[b].historyIndex = 2
        /\ store[b].shapes = <<>>

\* C17 as stated: in every reachable state history[0] is the empty
\* shape-set.
C17_OldestIsEmpty ==
    \A b \in StoreType : store[b].history[1] = <<>>

\* C17: history is never empty and history[0] starts as the empty
\* shape-set; history[0] changes only in a commit made with the cursor on
\* the 50th entry, where the cap drops the oldest entry, or in a reset,
\* which puts the empty shape-set back.
C17_OldestEntry ==
    /\ \A b \in StoreType : store[b].history[1] = <<>>
    /\ [][ \A b \in StoreType :
             LET s == store[b]
                 t == store'[b]
             IN  /\ Len(t.history) >= 1
                 /\ t.history[1] # s.history[1]
                      => \/ Commits(b) /\ s.historyIndex = maxHistorySize - 1
                         \/ ReplayReset /\ t.history[1] = <<>> ]_vars

\* The cap dropped the initial entry: the oldest of 50 entries holds a
\* shape, and an undo moved the cursor off the last entry.
C17_Witness ==
    \A b \in StoreType :
        /\ Len(store[b].history) = 50
        /\ store[b].history[1] = <<plainShape>>
        /\ store[b].historyIndex = 48

\* C18: reset restores every field to its initial value from any reachable
\* state: shapes = [], currentColor = '#000000', currentTool = 'pen',
\* history = [[]], historyIndex = 0, isDrawing = false, currentPath = [];
\* undo and redo then change nothing.
C18_Reset ==
    [][ \A b \in StoreType :
          LET t == store'[b]
          IN  ReplayReset
                => /\ t.shapes = <<>>
                   /\ t.currentColor = "#000000"
                   /\ t.currentTool = "pen"
                   /\ t.history = << <<>> >>
                   /\ t.historyIndex = 0
                   /\ t.isDrawing = FALSE
                   /\ t.currentPath = <<>>
                   /\ DOMAIN t = DOMAIN initialCanvasState
                   /\ useCanvasStore(b, t, [op |-> "undo"], unused) = t
                   /\ useCanvasStore(b, t, [op |-> "redo"], unused) = t ]_vars

\* A state reset has to restore in every field but the tool: a shape, a
\* second history entry under the cursor, a changed colour and a stroke in
\* progress.
C18_Witness ==
    \A b \in StoreType :
        /\ Len(store[b].shapes) = 1
        /\ Len(store[b].history) = 2
        /\ store[b].historyIndex = 1
        /\ store[b].currentColor = "#FF0000"
        /\ store[b].isDrawing
        /\ Len(store[b].currentPath) = 1

\* Colour arguments outside the palette of the toolbar.
OtherColors == { "", "not-a-color" }

\* C19: changeColor(c) and changeTool(t) change only currentColor,
\* respectively currentTool, whatever the argument; they create no history
\* entry and leave shapes, history, historyIndex, isDrawing and currentPath
\* unchanged.
C19_ChangeColorTool ==
    [][ \A b \in StoreType :
          LET s == store[b]
              t == store'[b]
          IN  /\ \A color \in Colors :
                    store' = Replay([op |-> "changeColor", arg |-> color], noGens)
                      => t = [s EXCEPT !.currentColor = color]
              /\ \A tool \in DrawingTool :
                    store' = Replay([op |-> "changeTool", arg |-> tool], noGens)
                      => t = [s EXCEPT !.currentTool = tool]
              /\ \A color \in OtherColors :
                    useCanvasStore(b, t, [op |-> "changeColor", arg |-> color], unused)
                      = [t EXCEPT !.currentColor = color] ]_vars

\* Colour and tool both changed in the middle of a stroke, which goes on.
C19_Witness ==
    \A b \in StoreType :
        /\ store[b].currentColor = "#FF0000"
        /\ store[b].currentTool = "circle"
        /\ store[b].isDrawing
        /\ Len(store[b].currentPath) = 1
        /\ store[b].history = << <<>> >>

\* C20: startDrawing(p) sets isDrawing = true and currentPath = [p] from any
\* state; the path of a stroke already in progress is replaced and lost, no
\* shape is persisted, and shapes, history, historyIndex, currentColor and
\* currentTool are unchanged.
C20_StartDrawing ==
    [][ \A p \in Points :
          store' = Replay([op |-> "startDrawing", arg |-> p], noGens)
            => \A b \in StoreType :
                 LET s == store[b]
                     t == store'[b]
                 IN  /\ t.isDrawing = TRUE
                     /\ t.currentPath = <<p>>
                     /\ t.shapes = s.shapes
                     /\ t.history = s.history
                     /\ t.historyIndex = s.historyIndex
                     /\ t.currentColor = s.currentColor
                     /\ t.currentTool = s.currentTool ]_vars

\* A stroke of one point started on a canvas that holds a shape, under a
\* changed tool.
C20_Witness ==
    \A b \in StoreType :
        /\ store[b].isDrawing
        /\ store[b].currentPath = << [x |-> 20, y |-> 20] >>
        /\ Len(store[b].shapes) = 1
        /\ store[b].historyIndex = 1
        /\ store[b].currentTool = "rectangle"

----------------------------------------------------------------------------
(* Strokes, and the switch between stores                                  *)

\* C21: continueDrawing(p) appends exactly p at the end of currentPath when
\* isDrawing is true and changes nothing at all when isDrawing is false; in
\* both cases every other field is unchanged.
C21_ContinueDrawing ==
    [][ \A p \in Points :
          store' = Replay([op |-> "continueDrawing", arg |-> p], noGens)
            => \A b \in StoreType :
                 LET s == store[b]
                     t == store'[b]
                 IN  IF s.isDrawing
                     THEN t = [s EXCEPT !.currentPath = Append(s.currentPath, p)]
                     ELSE t = s ]_vars

\* A stroke continued from (20,20) to (10,10), in that order.
C21_Witness ==
    \A b \in StoreType :
        /\ store[b].isDrawing
        /\ store[b].currentPath = << [x |-> 20, y |-> 20], [x |-> 10, y |-> 10] >>

\* C22: in every state seen after a command, currentPath is non-empty only
\* if isDrawing is true.
C22_PathOnlyWhileDrawing ==
    \A b \in StoreType :
        store[b].currentPath # <<>> => store[b].isDrawing

\* The redux store is selected and holds a stroke of two points, after an
\* earlier edit was undone.
C22_Witness ==
    /\ currentStore = "redux"
    /\ store["redux"].isDrawing
    /\ Len(store["redux"].currentPath) = 2
    /\ Len(store["redux"].history) = 2
    /\ store["redux"].historyIndex = 0

C24_SwitchEndsStroke ==
    [][ currentStore' # currentStore
          => /\ store'[currentStore'].isDrawing = FALSE
             /\ store'[currentStore'].currentPath = <<>> ]_vars

\* C25: a switch to the store already selected changes nothing: the same
\* store stays selected and the state of every store is as before.
C25_SameStoreSwitch ==
    /\ currentStore \in StoreType
    /\ handleStoreChange(currentStore) = store

\* The context store is selected and holds a shape and a stroke in
\* progress, which a remount would lose.
C25_Witness ==
    /\ currentStore = "context"
    /\ Len(store["context"].shapes) = 1
    /\ store["context"].isDrawing
    /\ Len(store["context"].currentPath) = 1

----------------------------------------------------------------------------
(* Totality, the stroke invariant, and the undo/redo round trip            *)

IsPoint(p) == DOMAIN p = { "x", "y" }

IsShape(shape) ==
    /\ DOMAIN shape = { "id", "points", "color", "type", "timestamp" }
    /\ shape.type \in DrawingTool
    /\ \A i \in 1..Len(shape.points) : IsPoint(shape.points[i])

IsShapes(shapes) == \A i \in 1..Len(shapes) : IsShape(shapes[i])

\* A well-defined CanvasState: the seven fields, a non-empty history and a
\* cursor on one of its entries.
IsCanvasState(s) ==
    /\ DOMAIN s = DOMAIN initialCanvasState
    /\ IsShapes(s.shapes)
    /\ s.currentTool \in DrawingTool
    /\ Len(s.history) >= 1
    /\ \A i \in 1..Len(s.history) : IsShapes(s.history[i])
    /\ s.historyIndex \in 0..(Len(s.history) - 1)
    /\ s.isDrawing \in BOOLEAN
    /\ \A i \in 1..Len(s.currentPath) : IsPoint(s.currentPath[i])

\* Points off the canvas.
OtherPoints == { [x |-> -1, y |-> 0], [x |-> 100000, y |-> 100000] }

\* The ten commands with their arguments.
AllCommands ==
    { [op |-> "addShape", arg |-> shapeData] : shapeData \in ShapeDatas }
      \cup { [op |-> "changeColor", arg |-> color] : color \in Colors \cup OtherColors }
      \cup { [op |-> "changeTool", arg |-> tool] : tool \in DrawingTool }
      \cup { [op |-> "startDrawing", arg |-> point] : point \in Points \cup OtherPoints }
      \cup { [op |-> "continueDrawing", arg |-> point] : point \in Points \cup OtherPoints }
      \cup { [op |-> o] : o \in { "finishDrawing", "undo", "redo", "clear", "reset" } }

\* C27: each of the ten commands is total: in any reachable state and with
\* any argument it gives a well-defined next CanvasState; undo and redo
\* read no history position outside 0..history.length-1.
C27_CommandsTotal ==
    \A b \in StoreType :
        LET s == store[b]
        IN  /\ canUndo(s.historyIndex)
                => s.historyIndex - 1 \in 0..(Len(s.history) - 1)
            /\ canRedo(s.historyIndex, Len(s.history))
                => s.historyIndex + 1 \in 0..(Len(s.history) - 1)
            /\ \A cmd \in AllCommands, gen \in Generated :
                  IsCanvasState(useCanvasStore(b, s, cmd, gen))

\* Undone down to the first of 50 entries: undo is at its boundary and redo
\* has 49 entries ahead.
C27_Witness ==
    \A b \in StoreType :
        /\ Len(store[b].history) = 50
        /\ store[b].historyIndex = 0
        /\ store[b].shapes = <<>>
        /\ store[b].history[2] = <<plainShape>>

\* C28: commands are atomic with respect to each other: the zustand
\* finishDrawing reads the state with get() and writes it in a separate
\* set(), and no command runs in between, so that the shape it persists is
\* built from the path, colour and tool the store has at the write.
C28_FinishDrawingAtomic ==
    [][ (args # noCall /\ args' = noCall)
          => LET draft == store["zustand"]
                 t     == store'["zustand"]
             IN  /\ args.state = draft
                 /\ t.isDrawing = FALSE
                 /\ t.currentPath = <<>>
                 /\ (draft.isDrawing /\ Len(draft.currentPath) > 0)
                      => /\ Len(t.shapes) = Len(draft.shapes) + 1
                         /\ StripShape(Last(t.shapes))
                              = [ points |-> draft.currentPath,
                                  color  |-> draft.currentColor,
                                  type   |-> draft.currentTool ]
                 /\ ~(draft.isDrawing /\ Len(draft.currentPath) > 0)
                      => t.shapes = draft.shapes ]_vars

\* A finishDrawing between its get() and its set(), holding a stroke in
\* progress, after an earlier finishDrawing persisted a one-point stroke.
C28_Witness ==
    /\ args # noCall
    /\ args.state.isDrawing
    /\ Len(args.state.currentPath) = 1
    /\ Len(store["zustand"].shapes) = 1
    /\ store["zustand"].shapes[1].type = "pen"

\* C29: in every reachable state isDrawing implies a non-empty currentPath,
\* so that a finishDrawing dispatched during a stroke always persists a
\* shape and adds a history entry, also for the one-point path of a
\* startDrawing directly followed by finishDrawing.
C29_StrokeHasPoints ==
    /\ [](\A b \in StoreType : store[b].isDrawing => Len(store[b].currentPath) > 0)
    /\ [][ \A b \in StoreType :
             LET s == store[b]
                 t == store'[b]
             IN  (ReplayFinishDrawing /\ s.isDrawing)
                   => /\ Len(t.shapes) = Len(s.shapes) + 1
                      /\ Last(t.shapes).points = s.currentPath
                      /\ Committed(s, t, t.shapes)
                      /\ Len(s.currentPath) = 1 => Len(Last(t.shapes).points) = 1 ]_vars

\* A click without a drag: a black pen shape of the single point (10,10).
C29_Witness ==
    \A b \in StoreType :
        /\ Len(store[b].shapes) = 1
        /\ store[b].shapes[1].points = << [x |-> 10, y |-> 10] >>
        /\ store[b].shapes[1].type = "pen"
        /\ store[b].shapes[1].color = "#000000"
        /\ Len(store[b].history) = 2
        /\ store[b].historyIndex = 1

\* The three values the round trip is about.
Cursor(s) == [ shapes |-> s.shapes, history |-> s.history, historyIndex |-> s.historyIndex ]

\* C30: with historyIndex > 0, undo followed by redo gives back shapes (the
\* same ids, points, colours, types and timestamps), history and
\* historyIndex as they were before the undo; likewise redo followed by
\* undo with historyIndex < history.length - 1.
C30_UndoRedoRoundTrip ==
    \A b \in StoreType :
        LET s    == store[b]
            undo == [op |-> "undo"]
            redo == [op |-> "redo"]
        IN  /\ s.historyIndex > 0
                => Cursor(useCanvasStore(b, useCanvasStore(b, s, undo, unused),
                                         redo, unused)) = Cursor(s)
            /\ s.historyIndex < Len(s.history) - 1
                => Cursor(useCanvasStore(b, useCanvasStore(b, s, redo, unused),
                                         undo, unused)) = Cursor(s)

\* A cursor with an entry on each side, on the entry that holds a shape.
C30_Witness ==
    \A b \in StoreType :
        /\ store[b].history = << <<>>, <<plainShape>>, <<>> >>
        /\ store[b].historyIndex = 1
        /\ store[b].shapes = <<plainShape>>

----------------------------------------------------------------------------
(* The selected store and the others                                       *)

\* C31: a command dispatched through the universal interface changes the
\* state of the selected store only; the CanvasState of each other store is
\* unchanged.
C31_OnlySelectedStoreChanges ==
    [][ currentStore' = currentStore
          => \A b \in StoreType \ { currentStore } : store'[b] = store[b] ]_vars

\* Redux is selected and has a changed colour of its own, next to a zustand
\* store that holds a shape and the initial colour.
C31_Witness ==
    /\ currentStore = "redux"
    /\ store["redux"].currentColor = "#FF0000"
    /\ store["redux"].shapes = <<>>
    /\ Len(store["zustand"].shapes) = 1
    /\ store["zustand"].currentColor = "#000000"

----------------------------------------------------------------------------
(* The history dropdown, repeated undo, and addShape during a stroke       *)

Abs(n) == IF n < 0 THEN 0 - n ELSE n

\* C34: selecting history step i in the history dropdown dispatches exactly
\* |i - historyIndex| undo commands when i is below the cursor, or redo
\* commands when it is above, and ends with historyIndex = i and
\* shapes = history[i], the history itself unchanged, in every store.
C34_HistoryDropdown ==
    \A b \in StoreType :
        LET s == store[b]
        IN  Len(s.history) > 1
              => \A i \in 0..(Len(s.history) - 1) :
                    LET run == historyDropdown_onChange(b, s, i)
                        t   == run.state
                    IN  /\ Len(run.dispatched) = Abs(i - s.historyIndex)
                        /\ \A k \in 1..Len(run.dispatched) :
                              run.dispatched[k] = IF i < s.historyIndex THEN "undo"
                                                                        ELSE "redo"
                        /\ t.historyIndex = i
                        /\ t.shapes = s.history[i + 1]
                        /\ t.history = s.history

\* A cursor in the middle of a full history: steps 1 to 50 are offered, 20
\* of them below the cursor and 29 above.
C34_Witness ==
    \A b \in StoreType :
        /\ Len(store[b].history) = 50
        /\ store[b].historyIndex = 20
        /\ store[b].history[2] = <<plainShape>>
        /\ store[b].shapes = <<>>

RECURSIVE undoUntilNoEffect(_, _, _)
\* undo dispatched again and again until a dispatch changes nothing; steps
\* counts the dispatches that changed the state.
undoUntilNoEffect(storeType, state, steps) ==
    LET next == useCanvasStore(storeType, state, [op |-> "undo"], unused)
    IN  IF next # state
        THEN undoUntilNoEffect(storeType, next, steps + 1)
        ELSE [ state |-> state, steps |-> steps ]

\* C35: from any reachable state, undo dispatched repeatedly reaches
\* historyIndex = 0 after exactly historyIndex effective steps and stays
\* there, with shapes equal to the oldest entry the history retains.
C35_RepeatedUndo ==
    \A b \in StoreType :
        LET s   == store[b]
            end == undoUntilNoEffect(b, s, 0)
        IN  /\ end.steps = s.historyIndex
            /\ end.state.historyIndex = 0
            /\ end.state.shapes = s.history[1]
            /\ end.state.history = s.history
            /\ useCanvasStore(b, end.state, [op |-> "undo"], unused) = end.state

\* 25 undos away from the oldest of 50 entries, which holds a shape since
\* the cap dropped the initial entry.
C35_Witness ==
    \A b \in StoreType :
        /\ Len(store[b].history) = 50
        /\ store[b].historyIndex = 25
        /\ store[b].history[1] = <<plainShape>>
        /\ store[b].shapes = <<>>

\* C36: addShape dispatched during a stroke leaves isDrawing, currentPath,
\* currentColor and currentTool unchanged, so that a following
\* finishDrawing still persists the stroke, after the added shape.
C36_AddShapeDuringStroke ==
    [][ \A shapeData \in ShapeDatas, gens \in GeneratedByStores :
          store' = Replay([op |-> "addShape", arg |-> shapeData], gens)
            => \A b \in StoreType :
                 LET s == store[b]
                     t == store'[b]
                     f == useCanvasStore(b, t, [op |-> "finishDrawing"], gens[b])
                 IN  /\ t.isDrawing = s.isDrawing
                     /\ t.currentPath = s.currentPath
                     /\ t.currentColor = s.currentColor
                     /\ t.currentTool = s.currentTool
                     /\ s.isDrawing
                          => /\ Len(f.shapes) = Len(s.shapes) + 2
                             /\ SubSeq(f.shapes, 1, Len(s.shapes)) = s.shapes
                             /\ StripShape(f.shapes[Len(s.shapes) + 1]) = shapeData
                             /\ StripShape(f.shapes[Len(s.shapes) + 2])
                                  = [ points |-> s.currentPath,
                                      color  |-> s.currentColor,
                                      type   |-> s.currentTool ]
                             /\ Committed(t, f, f.shapes) ]_vars

\* A shape added during a stroke that goes on: the history has the added
\* circle under its cursor and the path still holds the point of the
\* stroke, under a changed colour.
C36_Witness ==
    \A b \in StoreType :
        /\ Len(store[b].shapes) = 1
        /\ store[b].shapes[1].type = "circle"
        /\ store[b].historyIndex = 1
        /\ store[b].isDrawing
        /\ store[b].currentPath = << [x |-> 20, y |-> 20] >>
        /\ store[b].currentColor = "#FF0000"

====
